---- MODULE Spec2Model ----
(***************************************************************************)
(* LuminS: the orchestration of src/lumins/core.rs (synchronize, copy) and  *)
(* the flag decoding of src/lumins/parse.rs, over an abstract filesystem.  *)
(* The module lumins::file_ops (scanner, copier, comparator, deleter) is   *)
(* not part of the sources at hand and is modelled from spec.md, sections  *)
(* 4.1 to 4.5.                                                             *)
(***************************************************************************)
EXTENDS Naturals, Sequences, FiniteSets

(* ------------------------------------------------------------------ *)
(* Bounds and universes                                                *)
(* ------------------------------------------------------------------ *)

\* Total number of entries of the source and destination trees together.
MaxEntries == 3

\* Root-relative paths: two top-level names, two children and one grandchild.
Paths ==
    { <<"a">>, <<"b">>, <<"a", "a">>, <<"a", "b">>, <<"a", "a", "a">> }

\* Stands for "no path" (the root itself is never a work item).
NoPath == << >>

\* File contents and symlink target strings.
Contents == { "x", "y" }
Targets == { "t", "u" }

\* What secure erasure leaves in a file before it is unlinked.
Filler == "0"

Absent == [kind |-> "none", data |-> "-"]
DirEntry == [kind |-> "dir", data |-> "-"]
FileEntry(c) == [kind |-> "file", data |-> c]
SymlinkEntry(t) == [kind |-> "symlink", data |-> t]

Entries ==
    { Absent, DirEntry } \cup { FileEntry(c) : c \in Contents }
        \cup { SymlinkEntry(t) : t \in Targets }

Parent(p) == SubSeq(p, 1, Len(p) - 1)

\* q is a proper ancestor of p.
IsAncestor(q, p) == Len(q) < Len(p) /\ SubSeq(p, 1, Len(q)) = q

ParentIsDir(t, p) == Len(p) = 1 \/ t[Parent(p)].kind = "dir"

WellFormed(t) ==
    \A p \in Paths : t[p] # Absent => ParentIsDir(t, p)

Present(t) == { p \in Paths : t[p] # Absent }

EmptyTree == [p \in Paths |-> Absent]

Trees ==
    { t \in [Paths -> Entries] :
        WellFormed(t) /\ Cardinality(Present(t)) <= MaxEntries }

(* ------------------------------------------------------------------ *)
(* parse.rs: the flag bitfield                                         *)
(* ------------------------------------------------------------------ *)

FlagCopy == 1
FlagNoDelete == 2
FlagSecure == 4
FlagVerbose == 8

RECURSIVE Pow2(_)
Pow2(n) == IF n = 0 THEN 1 ELSE 2 * Pow2(n - 1)

\* ((flag as u32) as f32).log2() as u32: the cast truncates towards zero.
RECURSIVE Log2(_)
Log2(n) == IF n <= 1 THEN 0 ELSE 1 + Log2(n \div 2)

\* The whole bitfield compared with the flag.
contains_flag_WholeField(bitfield, flag) == bitfield = flag

\* (bitfield >> log2(flag) & 1) == 1
contains_flag(bitfield, flag) ==
    ((bitfield \div Pow2(Log2(flag))) % 2) = 1

\* The options of the command line that set a flag, and the flag of each.
ArgNames == { "copy", "verbose", "nodelete", "secure" }

FlagOfArg(a) ==
    CASE a = "copy" -> FlagCopy
      [] a = "verbose" -> FlagVerbose
      [] a = "nodelete" -> FlagNoDelete
      [] a = "secure" -> FlagSecure

\* a | b on unsigned integers.
RECURSIVE BitOr(_, _)
BitOr(a, b) ==
    IF a = 0 THEN b
    ELSE IF b = 0 THEN a
    ELSE (IF a % 2 = 1 \/ b % 2 = 1 THEN 1 ELSE 0)
             + 2 * BitOr(a \div 2, b \div 2)

\* let mut flags = 0; if args.is_present(..) { flags |= Flag::.. as u32; }
FlagsOf(a) ==
    LET f1 == IF "copy" \in a THEN BitOr(0, FlagCopy) ELSE 0
        f2 == IF "verbose" \in a THEN BitOr(f1, FlagVerbose) ELSE f1
        f3 == IF "nodelete" \in a THEN BitOr(f2, FlagNoDelete) ELSE f2
    IN  IF "secure" \in a THEN BitOr(f3, FlagSecure) ELSE f3

\* What a path given on the command line names.
RootKinds == { "missing", "file", "dir" }

\* fs::create_dir_all(&dest): nothing to do on a directory, an error on
\* another entry, and on a missing path the directory is made when the
\* environment allows it.
create_dir_all(kind, creatable) ==
    CASE kind = "dir" -> [ok |-> TRUE, kind |-> "dir"]
      [] kind = "file" -> [ok |-> FALSE, kind |-> "file"]
      [] kind = "missing" ->
             IF creatable THEN [ok |-> TRUE, kind |-> "dir"]
             ELSE [ok |-> FALSE, kind |-> "missing"]

\* The destination created before the source is looked at.
parse_args_DestFirst(srcKind, destKind, creatable, a) ==
    LET create_dest == create_dir_all(destKind, creatable)
    IN  IF ~create_dest.ok \/ srcKind # "dir"
        THEN [result |-> "Err", dest |-> create_dest.kind, flags |-> 0]
        ELSE [result |-> "Ok", dest |-> create_dest.kind,
              flags |-> FlagsOf(a)]

\* parse_args: the result, what the destination path names afterwards,
\* and the flags of the ParseResult.
parse_args(srcKind, destKind, creatable, a) ==
    IF srcKind = "file"
    THEN [result |-> "Err", dest |-> destKind, flags |-> 0]
    ELSE IF srcKind = "missing"
    THEN [result |-> "Err", dest |-> destKind, flags |-> 0]
    ELSE LET create_dest == create_dir_all(destKind, creatable)
         IN  IF ~create_dest.ok
             THEN [result |-> "Err", dest |-> create_dest.kind, flags |-> 0]
             ELSE [result |-> "Ok", dest |-> create_dest.kind,
                   flags |-> FlagsOf(a)]

(* ------------------------------------------------------------------ *)
(* file_ops: scanner, copier, comparator, deleter (from spec.md)       *)
(* ------------------------------------------------------------------ *)

NoFileSets == [files |-> {}, dirs |-> {}, symlinks |-> {}]

\* 4.1: three sets of root-relative paths, one per kind; a symlink is
\* recorded as a symlink and keyed, like every entry, by its RelPath.
get_all_files(t) ==
    [ files    |-> { p \in Paths : t[p].kind = "file" },
      dirs     |-> { p \in Paths : t[p].kind = "dir" },
      symlinks |-> { p \in Paths : t[p].kind = "symlink" } ]

Prefix(p, i) == SubSeq(p, 1, i)

\* The prefixes of p that stop a recursive directory creation: something
\* that is not a directory is in the way, or the environment refuses.
Blocked(t, p, badPath) ==
    { i \in 1..Len(p) :
        \/ t[Prefix(p, i)].kind \notin { "none", "dir" }
        \/ (t[Prefix(p, i)] = Absent /\ Prefix(p, i) = badPath) }

FirstBlocked(t, p, badPath) ==
    CHOOSE i \in Blocked(t, p, badPath) :
        \A j \in Blocked(t, p, badPath) : i <= j

\* 4.3 Dir: create the directory and any missing ancestor; idempotent.
\* A failure leaves the ancestors created before it.
CopyDirEntry(t, p, badPath) ==
    LET upto == IF Blocked(t, p, badPath) = {}
                THEN Len(p)
                ELSE FirstBlocked(t, p, badPath) - 1
    IN  [ ok   |-> Blocked(t, p, badPath) = {},
          tree |-> [ q \in Paths |->
                       IF \E i \in 1..upto : q = Prefix(p, i)
                       THEN DirEntry ELSE t[q] ] ]

\* 4.3 File: copy the content, overwriting a file already there. The copy
\* fails on a directory and without a parent directory; through an existing
\* symlink it writes to the link's target, outside the tree.
CopyFileEntry(t, s, p, badPath) ==
    LET ok == /\ p # badPath
              /\ ParentIsDir(t, p)
              /\ t[p].kind \in { "none", "file", "symlink" }
    IN  [ ok   |-> ok,
          tree |-> IF ok /\ t[p].kind # "symlink"
                   THEN [t EXCEPT ![p] = s[p]] ELSE t ]

\* 4.3 Symlink: a link with the source's target string; the path must be free.
CopySymlinkEntry(t, s, p, badPath) ==
    LET ok == p # badPath /\ ParentIsDir(t, p) /\ t[p] = Absent
    IN  [ ok   |-> ok,
          tree |-> IF ok THEN [t EXCEPT ![p] = s[p]] ELSE t ]

\* 4.4: the comparator decides definitively whether the contents differ.
FilesDiffer(s, t, p) == s[p].data # t[p].data

\* 4.4: nothing is written when the contents are the same; otherwise the
\* file is copied over the destination.
CompareAndCopyEntry(t, s, p, badPath) ==
    IF p # badPath /\ ~FilesDiffer(s, t, p)
    THEN [ok |-> TRUE, tree |-> t]
    ELSE CopyFileEntry(t, s, p, badPath)

\* 4.5: remove a file or a symlink.
DeleteFileEntry(t, p, badPath) ==
    LET ok == p # badPath /\ t[p].kind \in { "file", "symlink" }
    IN  [ ok   |-> ok,
          tree |-> IF ok THEN [t EXCEPT ![p] = Absent] ELSE t ]

Children(t, p) == { q \in Paths : t[q] # Absent /\ IsAncestor(p, q) }

\* 4.5: remove a directory, which the filesystem allows only when empty.
DeleteDirEntry(t, p, badPath) ==
    LET ok == /\ p # badPath
              /\ t[p].kind = "dir"
              /\ Children(t, p) = {}
    IN  [ ok   |-> ok,
          tree |-> IF ok THEN [t EXCEPT ![p] = Absent] ELSE t ]

Rank(n) == IF n = "a" THEN 1 ELSE 2

\* p comes after q in the lexicographic order (paths of equal depth).
RECURSIVE LexGreater(_, _)
LexGreater(p, q) ==
    /\ p # << >>
    /\ q # << >>
    /\ \/ Rank(Head(p)) > Rank(Head(q))
       \/ Head(p) = Head(q) /\ LexGreater(Tail(p), Tail(q))

\* 4.5: deepest first, ties in reverse lexicographic order.
DeletedBefore(p, q) ==
    \/ Len(p) > Len(q)
    \/ Len(p) = Len(q) /\ LexGreater(p, q)

RECURSIVE sort_files(_)
sort_files(S) ==
    IF S = {} THEN << >>
    ELSE LET first == CHOOSE p \in S :
                         \A q \in S \ { p } : DeletedBefore(p, q)
         IN  << first >> \o sort_files(S \ { first })

(* ------------------------------------------------------------------ *)
(* core.rs: the state of one call and of the filesystem                *)
(* ------------------------------------------------------------------ *)

VARIABLES
    src,            \* the source tree
    dest,           \* the destination tree
    src_ok,         \* the source root can be scanned
    dest_ok,        \* the destination root can be scanned
    bad,            \* a path on which the environment refuses every operation
    op,             \* "synchronize" or "copy"
    flags,          \* the flag bitfield of the call
    pc,             \* the statement of the call that runs
    work,           \* the items of the running parallel phase not yet run
    queue,          \* the directories left to the sequential deletion
    src_file_sets,  \* the scan of src
    dest_file_sets, \* the scan of dest
    result,         \* "none" while the call runs, then "Ok" or "Err"
    run,            \* the number of the call
    dest_pre,       \* the destination tree when the call started
    log,            \* the filesystem operations the call has attempted
    src_root,       \* what the SOURCE argument names
    dest_root,      \* what the DESTINATION argument names
    dest_creatable, \* the environment lets the destination be created
    args,           \* the options present on the command line
    parsed,         \* "none" before parse_args returns, then "Ok" or "Err"
    parsed_flags,   \* the flags of the ParseResult
    decoded,        \* the answers of contains_flag on parsed_flags
    dest_root_pre   \* what DESTINATION named before parse_args

core_vars ==
    << src, dest, src_ok, dest_ok, bad, op, flags, pc, work, queue,
       src_file_sets, dest_file_sets, result, run, dest_pre, log >>

parse_vars ==
    << src_root, dest_root, dest_creatable, args, parsed, parsed_flags,
       decoded, dest_root_pre >>

vars == << core_vars, parse_vars >>

\* The flag combinations the calls are made with.
FlagInputs ==
    { 0, FlagNoDelete, FlagSecure, FlagVerbose, FlagNoDelete + FlagVerbose }

\* The negation forgotten: deletion is enabled by NoDelete.
Delete_NotNegated(f) == contains_flag(f, FlagNoDelete)

\* The wrong bit read: deletion is disabled by Verbose.
Delete_ReadsVerbose(f) == ~contains_flag(f, FlagVerbose)

\* let delete = !parse::contains_flag(flags, parse::Flag::NoDelete);
Delete(f) == ~contains_flag(f, FlagNoDelete)

\* The set algebra of synchronize, on the two scans.
symlinks_to_delete(s, d) == d.symlinks \ s.symlinks
files_to_delete(s, d) == d.files \ s.files
dirs_to_copy(s, d) == s.dirs \ d.dirs
symlinks_to_copy(s, d) == s.symlinks \ d.symlinks

\* The difference forgotten: every file of src is copied.
files_to_copy_All(s, d) == s.files

\* let files_to_copy = src_files.par_difference(&dest_files);
files_to_copy(s, d) == s.files \ d.files

\* The intersection forgotten: every file of src is compared.
files_to_compare_All(s, d) == s.files

\* let files_to_compare = src_files.par_intersection(&dest_files);
files_to_compare(s, d) == s.files \cap d.files

Reverse(seq) == [i \in 1..Len(seq) |-> seq[Len(seq) + 1 - i]]

\* The directories in the opposite order, shallowest first.
dirs_to_delete_ShallowFirst(s, d) == Reverse(sort_files(d.dirs \ s.dirs))

\* let dirs_to_delete = dest_dirs.par_difference(&src_dirs);
\* let dirs_to_delete = file_ops::sort_files(dirs_to_delete);
dirs_to_delete(s, d) == sort_files(d.dirs \ s.dirs)

Statement(name, items, ordered) ==
    [name |-> name, items |-> items, ordered |-> ordered]

\* The files copied before the directories are created.
SyncStatements_FilesBeforeDirs(f, s, d) ==
    (IF Delete(f)
     THEN << Statement("delete_symlinks", symlinks_to_delete(s, d), << >>),
             Statement("delete_files", files_to_delete(s, d), << >>) >>
     ELSE << >>)
    \o << Statement("copy_files", files_to_copy(s, d), << >>),
          Statement("copy_dirs", dirs_to_copy(s, d), << >>),
          Statement("copy_symlinks", symlinks_to_copy(s, d), << >>),
          Statement("compare_files", files_to_compare(s, d), << >>) >>
    \o (IF Delete(f)
        THEN << Statement("delete_dirs", {}, dirs_to_delete(s, d)) >>
        ELSE << >>)

\* The directories and the files handed to the worker pool in one batch.
SyncStatements_DirsWithFiles(f, s, d) ==
    (IF Delete(f)
     THEN << Statement("delete_symlinks", symlinks_to_delete(s, d), << >>),
             Statement("delete_files", files_to_delete(s, d), << >>) >>
     ELSE << >>)
    \o << Statement("copy_symlinks", symlinks_to_copy(s, d), << >>),
          Statement("copy_files",
                    dirs_to_copy(s, d) \cup files_to_copy(s, d), << >>),
          Statement("compare_files", files_to_compare(s, d), << >>) >>
    \o (IF Delete(f)
        THEN << Statement("delete_dirs", {}, dirs_to_delete(s, d)) >>
        ELSE << >>)

\* The statements of synchronize after the scans, in program order, each
\* with the items it hands to the worker pool (or, for the directories to
\* delete, to the sequential loop).
SyncStatements(f, s, d) ==
    (IF Delete(f)
     THEN << Statement("delete_symlinks", symlinks_to_delete(s, d), << >>),
             Statement("delete_files", files_to_delete(s, d), << >>) >>
     ELSE << >>)
    \o << Statement("copy_dirs", dirs_to_copy(s, d), << >>),
          Statement("copy_symlinks", symlinks_to_copy(s, d), << >>),
          Statement("copy_files", files_to_copy(s, d), << >>),
          Statement("compare_files", files_to_compare(s, d), << >>) >>
    \o (IF Delete(f)
        THEN << Statement("delete_dirs", {}, dirs_to_delete(s, d)) >>
        ELSE << >>)

\* copy with the file deletion of synchronize in front.
CopyStatements_Deleting(s) ==
    << Statement("delete_files", get_all_files(dest).files \ s.files, << >>),
       Statement("copy_dirs", s.dirs, << >>),
       Statement("copy_files", s.files, << >>),
       Statement("copy_symlinks", s.symlinks, << >>) >>

\* copy without its last statement.
CopyStatements_NoSymlinks(s) ==
    << Statement("copy_dirs", s.dirs, << >>),
       Statement("copy_files", s.files, << >>) >>

\* The statements of copy after the scan of src, in program order.
CopyStatements(s) ==
    << Statement("copy_dirs", s.dirs, << >>),
       Statement("copy_files", s.files, << >>),
       Statement("copy_symlinks", s.symlinks, << >>) >>

Statements(o, f, s, d) ==
    IF o = "copy" THEN CopyStatements(s) ELSE SyncStatements(f, s, d)

PhaseNames ==
    { "delete_symlinks", "delete_files", "copy_dirs", "copy_symlinks",
      "copy_files", "compare_files", "delete_dirs" }

Return == Statement("return", {}, << >>)

\* The first statement from the i-th on that has an item to run, Return
\* when there is none: a statement over an empty set does nothing.
RECURSIVE FirstBusy(_, _)
FirstBusy(seq, i) ==
    IF i > Len(seq) THEN Return
    ELSE IF seq[i].items # {} \/ seq[i].ordered # << >>
         THEN seq[i]
         ELSE FirstBusy(seq, i + 1)

\* The call given up at the first entry that failed.
NextStatement_StopOnFailure(seq, ph) ==
    IF \E e \in log : ~e.ok
    THEN Return
    ELSE LET i == CHOOSE k \in 1..Len(seq) : seq[k].name = ph
         IN  FirstBusy(seq, i + 1)

\* The statement that runs after the one called ph.
NextStatement(seq, ph) ==
    LET i == CHOOSE k \in 1..Len(seq) : seq[k].name = ph
    IN  FirstBusy(seq, i + 1)

\* The error of the scan swallowed: the call goes on with empty sets.
AbortOnScanError_Swallowed(ok) == FALSE

\* The `?` after get_all_files: a failed scan ends the call.
AbortOnScanError(ok) == ~ok

\* delete_files is handed the paths and the root, and no flag.
DeleteSecure == FALSE

\* The result made to depend on the failures of the entries.
ReturnValue_FromEntries == IF \A e \in log : e.ok THEN "Ok" ELSE "Err"

\* Ok(()) at the end of synchronize and of copy.
ReturnValue == "Ok"

\* synchronize and copy called on two directories, as the tests of core.rs
\* call them: no command line is parsed.
NotParsing ==
    /\ src_root = "dir"
    /\ dest_root = "dir"
    /\ dest_root_pre = "dir"
    /\ dest_creatable = TRUE
    /\ args = {}
    /\ parsed = "none"
    /\ parsed_flags = 0
    /\ decoded = {}

Init ==
    /\ NotParsing
    /\ src_ok \in BOOLEAN
    /\ dest_ok \in BOOLEAN
    /\ src \in Trees
    /\ dest \in Trees
    /\ Cardinality(Present(src)) + Cardinality(Present(dest)) <= MaxEntries
    /\ src_ok \/ src = EmptyTree
    /\ dest_ok \/ dest = EmptyTree
    /\ bad \in Present(src) \cup Present(dest) \cup { NoPath }
    /\ op \in { "synchronize", "copy" }
    /\ flags \in IF op = "copy" THEN { FlagCopy } ELSE FlagInputs
    /\ pc = "scan_src"
    /\ work = {}
    /\ queue = << >>
    /\ src_file_sets = NoFileSets
    /\ dest_file_sets = NoFileSets
    /\ result = "none"
    /\ run = 1
    /\ dest_pre = dest
    /\ log = {}

\* Control passes to statement st, or the call returns.
Enter(st) ==
    IF st = Return
    THEN /\ pc' = "done"
         /\ result' = ReturnValue
         /\ work' = {}
         /\ queue' = << >>
    ELSE /\ pc' = st.name
         /\ work' = st.items
         /\ queue' = st.ordered
         /\ UNCHANGED result

Fail ==
    /\ pc' = "done"
    /\ result' = "Err"
    /\ UNCHANGED << work, queue >>

Scanned(ok, t) == IF ok THEN get_all_files(t) ELSE NoFileSets

\* let src_file_sets = file_ops::get_all_files(&src)?;
ScanSrc ==
    /\ pc = "scan_src"
    /\ IF AbortOnScanError(src_ok)
       THEN Fail /\ UNCHANGED src_file_sets
       ELSE /\ src_file_sets' = Scanned(src_ok, src)
            /\ IF op = "copy"
               THEN Enter(FirstBusy(Statements(op, flags, Scanned(src_ok, src),
                                               NoFileSets), 1))
               ELSE /\ pc' = "scan_dest"
                    /\ UNCHANGED << work, queue, result >>
    /\ UNCHANGED << parse_vars, src, dest, src_ok, dest_ok, bad, op, flags,
                    dest_file_sets, run, dest_pre, log >>

\* let dest_file_sets = file_ops::get_all_files(&dest)?;
ScanDest ==
    /\ pc = "scan_dest"
    /\ IF AbortOnScanError(dest_ok)
       THEN Fail /\ UNCHANGED dest_file_sets
       ELSE /\ dest_file_sets' = Scanned(dest_ok, dest)
            /\ Enter(FirstBusy(Statements(op, flags, src_file_sets,
                                          Scanned(dest_ok, dest)), 1))
    /\ UNCHANGED << parse_vars, src, dest, src_ok, dest_ok, bad, op, flags,
                    src_file_sets, run, dest_pre, log >>

Logged(act, p, ok) == [act |-> act, path |-> p, ok |-> ok]

\* One work item of a parallel phase has run, with outcome r.
ItemDone(p, act, r) ==
    /\ dest' = r.tree
    /\ log' = log \cup { Logged(act, p, r.ok) }
    /\ work' = work \ { p }
    /\ UNCHANGED << parse_vars, src, src_ok, dest_ok, bad, op, flags, pc, queue,
                    src_file_sets, dest_file_sets, result, run, dest_pre >>

\* Nothing can be done under a destination root that is no usable directory.
OnDest(r) == IF dest_ok THEN r ELSE [ok |-> FALSE, tree |-> dest]

\* file_ops::delete_files(symlinks_to_delete, &dest);
DeleteSymlinks(p) ==
    /\ pc = "delete_symlinks"
    /\ p \in work
    /\ ItemDone(p, "unlink", OnDest(DeleteFileEntry(dest, p, bad)))

\* file_ops::delete_files(files_to_delete, &dest);
\* 4.5: a secure deletion first overwrites the whole file with filler.
DeleteFiles(p) ==
    /\ pc = "delete_files"
    /\ p \in work
    /\ IF DeleteSecure /\ dest_ok /\ p # bad /\ dest[p].data # Filler
       THEN /\ dest' = [dest EXCEPT ![p] = FileEntry(Filler)]
            /\ log' = log \cup { Logged("overwrite", p, TRUE) }
            /\ UNCHANGED << parse_vars, src, src_ok, dest_ok, bad, op, flags, pc, work,
                            queue, src_file_sets, dest_file_sets, result,
                            run, dest_pre >>
       ELSE ItemDone(p, "unlink", OnDest(DeleteFileEntry(dest, p, bad)))

\* file_ops::copy_files(dirs_to_copy, ..) and copy_files(src_dirs, ..)
CopyDirs(p) ==
    /\ pc = "copy_dirs"
    /\ p \in work
    /\ ItemDone(p, "mkdir", OnDest(CopyDirEntry(dest, p, bad)))

\* file_ops::copy_files(symlinks_to_copy, ..) and copy_files(src_symlinks, ..)
CopySymlinks(p) ==
    /\ pc = "copy_symlinks"
    /\ p \in work
    /\ ItemDone(p, "symlink", OnDest(CopySymlinkEntry(dest, src, p, bad)))

\* file_ops::copy_files(files_to_copy, ..) and copy_files(src_files, ..)
CopyFiles(p) ==
    /\ pc = "copy_files"
    /\ p \in work
    /\ ItemDone(p, "copy", OnDest(CopyFileEntry(dest, src, p, bad)))

\* file_ops::compare_and_copy_files(files_to_compare, &src, &dest, flags);
\* 4.4: the file is copied only when the comparison finds a difference.
CompareAndCopyFiles(p) ==
    /\ pc = "compare_files"
    /\ p \in work
    /\ ItemDone(p,
                IF p # bad /\ dest_ok /\ ~FilesDiffer(src, dest, p)
                THEN "compare" ELSE "copy",
                OnDest(CompareAndCopyEntry(dest, src, p, bad)))

\* file_ops::delete_files_sequential(dirs_to_delete, &dest);
DeleteDirsSequential ==
    /\ pc = "delete_dirs"
    /\ queue # << >>
    /\ LET r == OnDest(DeleteDirEntry(dest, Head(queue), bad))
       IN  /\ dest' = r.tree
           /\ log' = log \cup { Logged("rmdir", Head(queue), r.ok) }
    /\ queue' = Tail(queue)
    /\ UNCHANGED << parse_vars, src, src_ok, dest_ok, bad, op, flags, pc, work,
                    src_file_sets, dest_file_sets, result, run, dest_pre >>

\* The call goes on without waiting for the items of the statement.
PhaseDone_NoBarrier ==
    /\ pc \in PhaseNames
    /\ Enter(NextStatement(Statements(op, flags, src_file_sets,
                                      dest_file_sets), pc))
    /\ UNCHANGED << parse_vars, src, dest, src_ok, dest_ok, bad, op, flags,
                    src_file_sets, dest_file_sets, run, dest_pre, log >>

\* Every item of the statement has run: the next statement starts, or the
\* call returns.
PhaseDone ==
    /\ pc \in PhaseNames
    /\ work = {}
    /\ queue = << >>
    /\ Enter(NextStatement(Statements(op, flags, src_file_sets,
                                      dest_file_sets), pc))
    /\ UNCHANGED << parse_vars, src, dest, src_ok, dest_ok, bad, op, flags,
                    src_file_sets, dest_file_sets, run, dest_pre, log >>

\* The same call is made again, nothing having changed in between (in an
\* environment that refuses nothing).
CallAgain ==
    /\ pc = "done"
    /\ run = 1
    /\ bad = NoPath
    /\ run' = run + 1
    /\ pc' = "scan_src"
    /\ result' = "none"
    /\ dest_pre' = dest
    /\ log' = {}
    /\ src_file_sets' = NoFileSets
    /\ dest_file_sets' = NoFileSets
    /\ UNCHANGED << parse_vars, src, dest, src_ok, dest_ok, bad, op, flags, work, queue >>

Next ==
    \/ ScanSrc
    \/ ScanDest
    \/ \E p \in Paths : DeleteSymlinks(p)
    \/ \E p \in Paths : DeleteFiles(p)
    \/ \E p \in Paths : CopyDirs(p)
    \/ \E p \in Paths : CopySymlinks(p)
    \/ \E p \in Paths : CopyFiles(p)
    \/ \E p \in Paths : CompareAndCopyFiles(p)
    \/ DeleteDirsSequential
    \/ PhaseDone
    \/ CallAgain

Spec == Init /\ [][Next]_vars

\* parse_args called on a command line, as the tests of parse.rs call it:
\* neither synchronize nor copy runs.
NotCalling ==
    /\ src = EmptyTree
    /\ dest = EmptyTree
    /\ src_ok = TRUE
    /\ dest_ok = TRUE
    /\ bad = NoPath
    /\ op = "synchronize"
    /\ flags = 0
    /\ pc = "idle"
    /\ work = {}
    /\ queue = << >>
    /\ src_file_sets = NoFileSets
    /\ dest_file_sets = NoFileSets
    /\ result = "none"
    /\ run = 1
    /\ dest_pre = EmptyTree
    /\ log = {}

ParseInit ==
    /\ NotCalling
    /\ src_root \in RootKinds
    /\ dest_root \in RootKinds
    /\ dest_creatable \in BOOLEAN
    /\ args \in SUBSET ArgNames
    /\ parsed = "none"
    /\ parsed_flags = 0
    /\ decoded = {}
    /\ dest_root_pre = dest_root

\* pub fn parse_args(args) -> Result<ParseResult, ()>
ParseArgs ==
    /\ parsed = "none"
    /\ LET r == parse_args(src_root, dest_root, dest_creatable, args)
       IN  /\ parsed' = r.result
           /\ dest_root' = r.dest
           /\ parsed_flags' = r.flags
    /\ UNCHANGED << core_vars, src_root, dest_creatable, args, decoded,
                    dest_root_pre >>

\* contains_flag(flags, flag) asked by a reader of the parsed flags.
ContainsFlag(a) ==
    /\ parsed = "Ok"
    /\ \A r \in decoded : r.arg # a
    /\ decoded' = decoded \cup
           { [arg |-> a,
              value |-> contains_flag(parsed_flags, FlagOfArg(a))] }
    /\ UNCHANGED << core_vars, src_root, dest_root, dest_creatable, args,
                    parsed, parsed_flags, dest_root_pre >>

ParseNext ==
    \/ ParseArgs
    \/ \E a \in ArgNames : ContainsFlag(a)

ParseSpec == ParseInit /\ [][ParseNext]_vars

(* ------------------------------------------------------------------ *)
(* Properties                                                          *)
(* ------------------------------------------------------------------ *)

Done == pc = "done"
Sync == op = "synchronize"

\* The environment refuses nothing.
Quiet == bad = NoPath

\* The paths of the destination, as the call found it, that src lacks.
Extras == { p \in Paths : dest_pre[p] # Absent /\ src[p] = Absent }

\* The operations of the call that changed, or tried to change, dest.
Mutations == { e \in log : e.act # "compare" }

\* No path holds a symlink in both trees (the case of C2).
NoSharedSymlink ==
    \A p \in Paths :
        ~(src[p].kind = "symlink" /\ dest_pre[p].kind = "symlink")

(* C1: after a synchronize with deletion enabled has returned Ok, with no
   refusal from the environment, every path holds in dest exactly what it
   holds in src (same kind, same content or target), and nothing else is
   in dest. Stated for the trees that share no symlink, which leaves the
   trees of different kinds at one path, so that a violation owes nothing
   to C2. *)
C1_Mirroring ==
    (Done /\ Sync /\ result = "Ok" /\ Delete(flags) /\ Quiet
        /\ NoSharedSymlink) => dest = src

(* C2: a symlink present in both trees at the same path with different
   targets points, after synchronize, to the target of the source. *)
C2_SymlinkRetargeted ==
    (Done /\ Sync /\ result = "Ok" /\ Quiet) =>
        \A p \in Paths :
            (/\ src[p].kind = "symlink"
             /\ dest_pre[p].kind = "symlink"
             /\ src[p].data # dest_pre[p].data) => dest[p] = src[p]

(* C3: a second synchronize in a row leaves dest as the first one left it
   and copies, creates and deletes nothing. Stated for the calls with
   deletion enabled and no refusal from the environment. *)
C3_Idempotent ==
    (Done /\ Sync /\ run = 2 /\ Delete(flags) /\ Quiet) =>
        (dest = dest_pre /\ { e \in Mutations : e.ok } = {})

(* C4: under NoDelete every path of dest that src lacks keeps its kind and
   its content or target at every moment of the call, and the call deletes
   nothing. *)
C4_NoDeleteKeepsExtras ==
    (Sync /\ contains_flag(flags, FlagNoDelete)) =>
        /\ \A p \in Extras : dest[p] = dest_pre[p]
        /\ \A e \in log : e.act \notin { "unlink", "rmdir", "overwrite" }

C4_Witness ==
    /\ Done /\ Sync /\ result = "Ok"
    /\ contains_flag(flags, FlagNoDelete)
    /\ Extras # {}
    /\ \E e \in log : e.ok /\ e.act \in { "mkdir", "copy", "symlink" }

\* The sequential deletion attempts to remove the directory at the head.
RmdirAttempt == pc = "delete_dirs" /\ queue # << >> /\ queue' = Tail(queue)

\* No directory still waiting lies inside the one now removed.
HeadIsDeepest ==
    \A i \in 2..Len(queue) : ~IsAncestor(Head(queue), queue[i])

NoDeleteFailed == \A e \in log : e.act \in { "unlink", "rmdir" } => e.ok

(* C5, as claimed: in every run with deletion enabled a directory is
   removed after every directory inside it, and whenever the removal of a
   directory is attempted the directory holds no entry. *)
C5_NeverRemovesNonEmpty ==
    [][RmdirAttempt =>
          (HeadIsDeepest /\ Children(dest, Head(queue)) = {})]_vars

(* C5, amended: a directory is removed after every directory inside it in
   every run; the directory is empty when its removal is attempted provided
   no deletion failed earlier in the call. *)
C5_DeletionOrderSafety ==
    [][RmdirAttempt =>
          /\ HeadIsDeepest
          /\ NoDeleteFailed => Children(dest, Head(queue)) = {}]_vars

C5_Witness ==
    /\ pc = "delete_dirs"
    /\ Logged("rmdir", << "a", "a" >>, TRUE) \in log
    /\ queue = << << "a" >> >>
    /\ dest[<< "a" >>].kind = "dir"
    /\ src[<< "a" >>] = Absent

(* C6: copy leaves every path of dest that src lacks as it found it, at
   every moment of the call. *)
C6_CopyIsAdditive ==
    op = "copy" => \A p \in Extras : dest[p] = dest_pre[p]

C6_Witness ==
    /\ Done /\ op = "copy" /\ result = "Ok"
    /\ Extras # {}
    /\ \E e \in log : e.ok

(* C7: when the scan of src or of dest fails, synchronize returns an error,
   dest stays as it was and no operation on the filesystem is attempted. *)
C7_ScanFailureIsFatal ==
    (Sync /\ (~src_ok \/ ~dest_ok)) =>
        /\ dest = dest_pre
        /\ log = {}
        /\ Done => result = "Err"

C7_Witness ==
    /\ Done /\ Sync /\ result = "Err"
    /\ ~src_ok /\ dest_ok
    /\ Present(dest) # {}

(* C8: the call returns Ok exactly when the scans it makes succeeded (src
   and dest for synchronize, src for copy), whatever failed on the entries. *)
C8_ResultIsScanResult ==
    Done => (result = "Ok" <=> (src_ok /\ (op = "copy" \/ dest_ok)))

C8_Witness ==
    /\ Done /\ result = "Ok"
    /\ \E e \in log : ~e.ok

(* C10: under Secure, with deletion enabled, a regular file is unlinked
   only once its content has been overwritten with filler. *)
C10_SecureDelete ==
    [][\A p \in Paths :
          (/\ Sync /\ contains_flag(flags, FlagSecure) /\ Delete(flags)
           /\ dest[p].kind = "file"
           /\ dest'[p] = Absent) => dest[p].data = Filler]_vars

\* What statement `name` does to tree t on item p when nothing is refused.
Undisturbed(name, t, p) ==
    CASE name \in { "delete_symlinks", "delete_files" } ->
             DeleteFileEntry(t, p, NoPath).tree
      [] name = "copy_dirs" -> CopyDirEntry(t, p, NoPath).tree
      [] name = "copy_symlinks" -> CopySymlinkEntry(t, src, p, NoPath).tree
      [] name = "copy_files" -> CopyFileEntry(t, src, p, NoPath).tree
      [] name = "compare_files" -> CompareAndCopyEntry(t, src, p, NoPath).tree
      [] name = "delete_dirs" -> DeleteDirEntry(t, p, NoPath).tree

RECURSIVE RunItems(_, _, _)
RunItems(name, t, items) ==
    IF items = {} THEN t
    ELSE LET p == CHOOSE x \in items : TRUE
         IN  RunItems(name, Undisturbed(name, t, p), items \ { p })

RECURSIVE RunOrdered(_, _, _)
RunOrdered(name, t, ordered) ==
    IF ordered = << >> THEN t
    ELSE RunOrdered(name, Undisturbed(name, t, Head(ordered)), Tail(ordered))

RECURSIVE RunStatements(_, _, _)
RunStatements(seq, i, t) ==
    IF i > Len(seq) THEN t
    ELSE RunStatements(seq, i + 1,
             RunOrdered(seq[i].name,
                        RunItems(seq[i].name, t, seq[i].items),
                        seq[i].ordered))

\* The statements of the running call, with the items of each.
Plan == Statements(op, flags, src_file_sets, dest_file_sets)

\* The destination the call ends with when no operation is refused.
Undisturbed_dest == IF dest_ok THEN RunStatements(Plan, 1, dest_pre) ELSE dest_pre

ActsOf(name) ==
    CASE name \in { "delete_symlinks", "delete_files" } -> { "unlink" }
      [] name = "copy_dirs" -> { "mkdir" }
      [] name = "copy_symlinks" -> { "symlink" }
      [] name = "copy_files" -> { "copy" }
      [] name = "compare_files" -> { "compare", "copy" }
      [] name = "delete_dirs" -> { "rmdir" }

ItemsOf(st) == st.items \cup { st.ordered[i] : i \in 1..Len(st.ordered) }

\* The paths on which an operation of the call failed.
FailedPaths == { e.path : e \in { f \in log : ~f.ok } }

(* C9: when the call has returned Ok, every item of every statement has
   been run, whatever failed before it, and every path on which no
   operation failed holds what it holds at the end of the call in which
   nothing is refused. *)
C9_FailuresAreIsolated ==
    (Done /\ result = "Ok") =>
        /\ \A i \in 1..Len(Plan) : \A p \in ItemsOf(Plan[i]) :
               \E e \in log : e.path = p /\ e.act \in ActsOf(Plan[i].name)
        /\ \A p \in Paths \ FailedPaths : dest[p] = Undisturbed_dest[p]

C9_Witness ==
    /\ Done /\ result = "Ok" /\ ~Quiet
    /\ \E e \in log, f \in log :
           /\ ~e.ok
           /\ f.ok /\ f.path # e.path /\ f.act # "compare"
           /\ e.act \in { "unlink", "mkdir" }
           /\ f.act \in { "copy", "symlink", "rmdir" }

\* The items of the statement of the plan that has this name.
ItemsIn(plan, name) ==
    UNION { ItemsOf(plan[i]) :
                i \in { j \in 1..Len(plan) : plan[j].name = name } }

\* The items of the statement of the running call that has this name.
ItemsNamed(name) == ItemsIn(Plan, name)

\* Some item of the statement has run; every item of it has run.
Started(plan, name) ==
    \E p \in ItemsIn(plan, name) :
        \E e \in log : e.path = p /\ e.act \in ActsOf(name)
Completed(plan, name) ==
    \A p \in ItemsIn(plan, name) :
        \E e \in log : e.path = p /\ e.act \in ActsOf(name)

(* C11: at every moment of a synchronize, when a directory creation has
   run every deletion of a file or of a symlink has run; when a copy of a
   symlink or of a file, or a comparison, has run every directory creation
   has run; when a directory deletion has run every copy of a file and
   every comparison has run; and a file that was copied lies in a
   directory of dest. *)
C11_PhaseOrdering ==
    Sync =>
        LET plan == Plan
        IN  /\ Started(plan, "copy_dirs") =>
                   /\ Completed(plan, "delete_symlinks")
                   /\ Completed(plan, "delete_files")
            /\ (\/ Started(plan, "copy_symlinks")
                \/ Started(plan, "copy_files")
                \/ Started(plan, "compare_files")) =>
                   Completed(plan, "copy_dirs")
            /\ Started(plan, "delete_dirs") =>
                   /\ Completed(plan, "copy_files")
                   /\ Completed(plan, "compare_files")
            /\ \A e \in log :
                   (e.act = "copy" /\ e.ok) => ParentIsDir(dest, e.path)

\* A file was copied into a directory that the call created, after a
\* deletion, and a directory was deleted at the end.
C11_Witness ==
    /\ Done /\ Sync
    /\ \E e \in log :
           /\ e.act = "copy" /\ e.ok
           /\ e.path \in ItemsNamed("copy_files")
           /\ Len(e.path) > 1
           /\ Parent(e.path) \in ItemsNamed("copy_dirs")
    /\ \E e \in log : e.act \in { "unlink", "rmdir" } /\ e.ok

\* No path holds entries of different kinds in src and in the destination
\* as the call found it.
KindsAgree ==
    \A p \in Paths :
        (src[p] # Absent /\ dest_pre[p] # Absent) =>
            src[p].kind = dest_pre[p].kind

\* Every entry of src is in dest, at its path and of its kind.
AllOfSrcInDest ==
    \A p \in Paths : src[p] # Absent => dest[p].kind = src[p].kind

(* C12, as stated: after a copy that the environment did not disturb,
   every directory, file and symlink of src is in dest at its path, and a
   second copy leaves dest as the first left it. *)
C12_CopyIdempotent ==
    (Done /\ op = "copy" /\ Quiet /\ dest_ok) =>
        /\ AllOfSrcInDest
        /\ run = 2 => dest = dest_pre

(* C12, amended: the same, for the trees in which no path holds entries
   of different kinds in src and in dest. *)
C12_CopyIdempotentWhereKindsAgree ==
    (Done /\ op = "copy" /\ Quiet /\ dest_ok /\ KindsAgree) =>
        /\ AllOfSrcInDest
        /\ run = 2 => dest = dest_pre

\* The second copy has returned, over a source of more than one kind of
\* entry, part of which dest lacked before the first.
C12_Witness ==
    /\ Done /\ op = "copy" /\ Quiet /\ dest_ok /\ KindsAgree /\ run = 2
    /\ \E p \in Paths, q \in Paths :
           /\ src[p].kind = "file" /\ src[q].kind \in { "dir", "symlink" }
    /\ \E e \in log : e.act = "copy" /\ e.ok
    /\ Present(dest) # Present(src)

\* The files that src and the destination, as the call found it, hold with
\* the same content at the same path.
UnchangedFiles ==
    { p \in Paths : src[p].kind = "file" /\ dest_pre[p] = src[p] }

(* C13: at every moment of a synchronize, a file that src and dest held
   with the same content when the call started has been written, copied or
   deleted by no operation of the call, and is in dest as it was. *)
C13_UnchangedFilesUntouched ==
    Sync =>
        \A p \in UnchangedFiles :
            /\ dest[p] = dest_pre[p]
            /\ \A e \in log : (e.path = p /\ e.ok) => e.act = "compare"

\* The call has returned after comparing an unchanged file and copying
\* another file.
C13_Witness ==
    /\ Done /\ Sync
    /\ \E p \in UnchangedFiles : Logged("compare", p, TRUE) \in log
    /\ \E e \in log : e.act = "copy" /\ e.ok

(* C14: the files to copy, to compare and to delete that synchronize
   computes from its two scans are pairwise disjoint and together are the
   files of src and of dest; no directory is both to copy and to delete,
   and no symlink is. *)
C14_ClassificationIsPartition ==
    LET s == src_file_sets
        d == dest_file_sets
        to_delete == ItemsNamed("delete_dirs")
    IN  /\ files_to_copy(s, d) \cap files_to_compare(s, d) = {}
        /\ files_to_copy(s, d) \cap files_to_delete(s, d) = {}
        /\ files_to_compare(s, d) \cap files_to_delete(s, d) = {}
        /\ files_to_copy(s, d) \cup files_to_compare(s, d)
               \cup files_to_delete(s, d) = s.files \cup d.files
        /\ dirs_to_copy(s, d) \cap to_delete = {}
        /\ (Sync /\ Delete(flags)) => to_delete = d.dirs \ s.dirs
        /\ symlinks_to_copy(s, d) \cap symlinks_to_delete(s, d) = {}

\* Both scans are made and files are in more than one bucket, with a
\* directory to copy or to delete.
C14_Witness ==
    /\ Sync /\ Delete(flags) /\ pc \in PhaseNames
    /\ files_to_copy(src_file_sets, dest_file_sets) # {}
    /\ \/ files_to_compare(src_file_sets, dest_file_sets) # {}
       \/ files_to_delete(src_file_sets, dest_file_sets) # {}
    /\ \/ dirs_to_copy(src_file_sets, dest_file_sets) # {}
       \/ ItemsNamed("delete_dirs") # {}

\* What the item p of the statement named name does to the tree t, and
\* the operation it leaves in the history, in the environment of the call.
Outcome(name, t, p) ==
    IF ~dest_ok THEN [ok |-> FALSE, tree |-> t]
    ELSE CASE name \in { "delete_symlinks", "delete_files" } ->
                  DeleteFileEntry(t, p, bad)
           [] name = "copy_dirs" -> CopyDirEntry(t, p, bad)
           [] name = "copy_symlinks" -> CopySymlinkEntry(t, src, p, bad)
           [] name = "copy_files" -> CopyFileEntry(t, src, p, bad)
           [] name = "compare_files" -> CompareAndCopyEntry(t, src, p, bad)
           [] name = "delete_dirs" -> DeleteDirEntry(t, p, bad)

OutcomeAct(name, t, p) ==
    IF name = "compare_files"
    THEN IF p # bad /\ dest_ok /\ ~FilesDiffer(src, t, p)
         THEN "compare" ELSE "copy"
    ELSE CHOOSE a \in ActsOf(name) : TRUE

ReplayItem(name, st, p) ==
    LET r == Outcome(name, st.tree, p)
    IN  [tree |-> r.tree,
         log |-> st.log \cup { Logged(OutcomeAct(name, st.tree, p), p, r.ok) }]

\* The items of a statement run one after the other, in one fixed order.
RECURSIVE ReplayItems(_, _, _)
ReplayItems(name, st, items) ==
    IF items = {} THEN st
    ELSE LET p == CHOOSE x \in items : TRUE
         IN  ReplayItems(name, ReplayItem(name, st, p), items \ { p })

RECURSIVE ReplayOrdered(_, _, _)
ReplayOrdered(name, st, ordered) ==
    IF ordered = << >> THEN st
    ELSE ReplayOrdered(name, ReplayItem(name, st, Head(ordered)),
                       Tail(ordered))

RECURSIVE Replay(_, _, _)
Replay(seq, i, st) ==
    IF i > Len(seq) THEN st
    ELSE Replay(seq, i + 1,
             ReplayOrdered(seq[i].name,
                           ReplayItems(seq[i].name, st, seq[i].items),
                           seq[i].ordered))

\* The destination and the history that the call ends with when it is
\* given the flags f and its items run one at a time in a fixed order.
InOrder(f) ==
    Replay(Statements(op, f, src_file_sets, dest_file_sets), 1,
           [tree |-> dest_pre, log |-> {}])

(* C15: when a call has returned Ok, whatever the order in which the
   items of its parallel statements ran, dest and the outcome of every
   operation (done or failed) are those of the run in which the items of
   each statement run one at a time in a fixed order. *)
C15_InterleavingIndependence ==
    (Done /\ result = "Ok") =>
        /\ dest = InOrder(flags).tree
        /\ log = InOrder(flags).log

\* A call has returned that created a directory and its missing parent in
\* one statement, and copied a file.
C15_Witness ==
    /\ Done /\ result = "Ok" /\ dest_ok
    /\ \E p \in ItemsNamed("copy_dirs") :
           Len(p) > 1 /\ Parent(p) \in ItemsNamed("copy_dirs")
    /\ \E e \in log : e.act = "copy" /\ e.ok

\* The flags f with the Verbose bit flipped.
ToggleVerbose(f) ==
    IF contains_flag(f, FlagVerbose) THEN f - FlagVerbose ELSE f + FlagVerbose

(* C18: when a synchronize has returned Ok, dest and the operations done
   are those of the call given the same flags with the Verbose bit
   flipped. *)
C18_VerboseIsInert ==
    (Done /\ Sync /\ result = "Ok") =>
        /\ dest = InOrder(ToggleVerbose(flags)).tree
        /\ log = InOrder(ToggleVerbose(flags)).log

\* A verbose synchronize has returned after deleting and copying.
C18_Witness ==
    /\ Done /\ Sync /\ result = "Ok"
    /\ contains_flag(flags, FlagVerbose)
    /\ \E e \in log : e.act = "unlink" /\ e.ok
    /\ \E e \in log : e.act \in { "copy", "mkdir", "symlink" } /\ e.ok

\* The worker pool runs every item it is given and the calling thread goes
\* on when the pool is idle: a step that can be taken is taken.
FairSpec == Spec /\ WF_vars(Next)

\* Every item of every statement of the call is in the history.
AllItemsRun ==
    \A i \in 1..Len(Plan) : \A p \in ItemsOf(Plan[i]) :
        \E e \in log : e.path = p /\ e.act \in ActsOf(Plan[i].name)

(* C16: under fair scheduling a call that has started returns; and when a
   call has returned no item is pending or running and, if it returned
   Ok, every entry it classified has been run. *)
C16_Termination ==
    /\ (pc = "scan_src") ~> Done
    /\ [](Done => /\ work = {} /\ queue = << >>
                  /\ result = "Ok" => AllItemsRun)

\* A call has returned Ok after running items of several statements.
C16_Witness ==
    /\ Done /\ result = "Ok"
    /\ \E e \in log, f \in log : e.act = "mkdir" /\ f.act = "copy"
    /\ work = {} /\ queue = << >>

(* C17: for every set of options on the command line, that is every
   bitfield from 0 to 15, contains_flag on the parsed flags answers true
   for a flag exactly when its option was given, whatever the other
   options; and deletion is enabled exactly when nodelete was not given. *)
C17_FlagDecoding ==
    /\ \A r \in decoded : r.value <=> (r.arg \in args)
    /\ parsed = "Ok" => (Delete(parsed_flags) <=> ("nodelete" \notin args))

\* All four flags have been asked of a bitfield with two bits set.
C17_Witness ==
    /\ parsed = "Ok"
    /\ Cardinality(args) = 2
    /\ Cardinality(decoded) = Cardinality(ArgNames)
    /\ \E r \in decoded : r.value
    /\ \E r \in decoded : ~r.value

(* C19: when parse_args has returned on a source that is missing or is
   no directory it has returned Err and the destination is as it was;
   when it has returned Ok the source is a directory and the destination
   is a directory. *)
C19_SourceCheckedFirst ==
    /\ (parsed # "none" /\ src_root # "dir") =>
           parsed = "Err" /\ dest_root = dest_root_pre
    /\ parsed = "Ok" => src_root = "dir" /\ dest_root = "dir"

\* parse_args has refused a source that is no directory when the
\* destination was missing and could have been created.
C19_Witness ==
    /\ parsed = "Err"
    /\ src_root # "dir"
    /\ dest_root_pre = "missing"
    /\ dest_creatable

====
